---- MODULE Spec2Model ----
(***************************************************************************)
(* A model of the multi_containers crate: the MultiMap of                  *)
(* src/src/multimap.rs and the MultiSet of src/src/multiset.rs over the    *)
(* Map / Lookup and Set / Container capability traits of src/src/maps.rs   *)
(* and src/src/sets.rs.                                                    *)
(*                                                                         *)
(* A backing map is a function whose DOMAIN is the set of keys present.    *)
(* A value-set is a set.  An Option is a sequence: None is << >> and       *)
(* Some(x) is << x >>.  A method taking &mut self is an operator from the  *)
(* object (a record of its fields) and the arguments to a record           *)
(* [self |-> the object afterwards, ret |-> the value returned].           *)
(* Iterators are sequences, in ascending order as the BTreeMap / BTreeSet  *)
(* backends yield them (the hash backends yield the same items in an       *)
(* unspecified order).                                                     *)
(***************************************************************************)
EXTENDS Integers, Sequences, FiniteSets, TLC

\* ------------------------------------------------------------------ bounds
\* Keys of the MultiMap are 1..NumKeys, its values 1..NumVals.
NumKeys == 2
NumVals == 2
\* MultiMap::insert is only called while the length counter is below this.
MaxLength == 5
\* Values of the MultiSet are 1..NumElems; count and max arguments range
\* over 0..MaxCount.
NumElems == 2
MaxCount == 2
\* MultiSet mutators that add are only called while the length counter
\* stays at or below this.
MaxSetLength == 4

\* Iterators and arrays handed to extend, from_iter and from hold at most
\* this many items.
MaxItems == 2

\* usize is modelled as an unsigned integer of this many bits.
UsizeBits == 2

Keys == 1 .. NumKeys
Vals == 1 .. NumVals
Elems == 1 .. NumElems
Counts == 0 .. MaxCount

VARIABLES
    mm,      \* the MultiMap: [map, length]
    mmPre,   \* the MultiMap before the last MultiMap call
    mmOp,    \* the last MultiMap call: its name, arguments and return value
    mmRef,   \* reference set of (key, value) pairs run beside the MultiMap
    mmRoot,  \* whether the MultiMap's BTreeMap has allocated its root node
    ms,      \* the MultiSet: [map, length]
    msPre,   \* the MultiSet before the last MultiSet call
    msOp,    \* the last MultiSet call: its name, arguments and return value
    msRoot,  \* whether the MultiSet's BTreeMap has allocated its root node
    mmi,     \* the MultiMapImpl of lib.rs: [data, len]
    mmiPre,  \* the MultiMapImpl before the last call made on it
    mmiOp,   \* the last call made on the MultiMapImpl
    overflow_checks  \* whether the build panics on integer overflow (else it wraps)

mmVars == << mm, mmPre, mmOp, mmRef, mmRoot >>
msVars == << ms, msPre, msOp, msRoot >>
mmiVars == << mmi, mmiPre, mmiOp >>
vars ==
    << mm, mmPre, mmOp, mmRef, mmRoot, ms, msPre, msOp, msRoot, mmi, mmiPre, mmiOp,
       overflow_checks >>

\* ------------------------------------------------------------------ Option
None == << >>
Some(x) == << x >>

\* ------------------------------------------------- ascending iteration order
Min(S) == CHOOSE x \in S : \A y \in S : x <= y

Max(S) == CHOOSE x \in S : \A y \in S : y <= x

RECURSIVE Descending(_)
Descending(S) ==
    IF S = {} THEN << >>
    ELSE LET x == Max(S) IN << x >> \o Descending(S \ {x})

RECURSIVE Ascending(_)
Ascending(S) ==
    IF S = {} THEN << >>
    ELSE LET x == Min(S) IN << x >> \o Ascending(S \ {x})

\* ------------------------------------------------- Set / Container (sets.rs)
Set_default == {}

Set_insert(s, value) == [set |-> s \cup {value}, ret |-> value \notin s]

Set_is_empty(s) == s = {}

Set_len(s) == Cardinality(s)

Set_iter(s) == Ascending(s)

Container_remove(s, value) == [set |-> s \ {value}, ret |-> value \in s]

Container_contains(s, value) == value \in s

\* --------------------------------------------------- Map / Lookup (maps.rs)
Map_default == [k \in {} |-> {}]

\* The map after get_or_insert; the reference returned is to its entry `key`.
Map_get_or_insert_Replace(m, key, made) ==
    [k \in DOMAIN m \cup {key} |-> IF k = key THEN made ELSE m[k]]

Map_get_or_insert(m, key, made) ==
    IF key \in DOMAIN m THEN m
    ELSE [k \in DOMAIN m \cup {key} |-> IF k = key THEN made ELSE m[k]]

Map_is_empty(m) == DOMAIN m = {}

Map_len(m) == Cardinality(DOMAIN m)

RECURSIVE EntriesOf(_, _)
EntriesOf(m, ks) ==
    IF ks = << >> THEN << >>
    ELSE << << Head(ks), m[Head(ks)] >> >> \o EntriesOf(m, Tail(ks))

Map_iter(m) == EntriesOf(m, Ascending(DOMAIN m))

Map_keys(m) == Ascending(DOMAIN m)

\* A std::ops::Bound on a key: Unbounded, Included(key) or Excluded(key).
Unbounded == << "Unbounded" >>
Included(key) == << "Included", key >>
Excluded(key) == << "Excluded", key >>

\* The keys a range's ends may name: every key, one below and one above.
RangeKeys == 0 .. NumKeys + 1

\* The start bounds of a..b, a..=b, a.. (Included) and of ..b, ..=b, .. ,
\* with ends among xs.
StartBounds(xs) == {Unbounded} \cup {Included(a) : a \in xs}

\* The end bounds of a..b (Excluded), a..=b (Included) and a.., .. .
EndBounds(xs) ==
    {Unbounded} \cup {Included(b) : b \in xs} \cup {Excluded(b) : b \in xs}

\* BTreeMap::range refuses a range whose start is above its end, or whose
\* start equals its end with both excluded.
RangeIsInverted(start, end) ==
    /\ start # Unbounded
    /\ end # Unbounded
    /\ \/ start[2] > end[2]
       \/ start[2] = end[2] /\ start[1] = "Excluded" /\ end[1] = "Excluded"

\* The tree's search from the start bound up to the end bound.
AtOrAfterStart(key, start) ==
    \/ start = Unbounded
    \/ start[1] = "Included" /\ start[2] <= key
    \/ start[1] = "Excluded" /\ start[2] < key

AtOrBeforeEnd(key, end) ==
    \/ end = Unbounded
    \/ end[1] = "Included" /\ key <= end[2]
    \/ end[1] = "Excluded" /\ key < end[2]

\* SortedMap::range of a BTreeMap: before its first insert the tree has no
\* root and the range yields nothing; once it has one (removals keep it)
\* it panics on an inverted range and otherwise yields the entries between
\* the bounds, ascending by key.
SortedMap_range(m, hasRoot, start, end) ==
    IF ~hasRoot THEN [panicked |-> FALSE, items |-> << >>]
    ELSE IF RangeIsInverted(start, end) THEN [panicked |-> TRUE, items |-> << >>]
    ELSE [panicked |-> FALSE,
          items |-> EntriesOf(m, Ascending({k \in DOMAIN m :
                        AtOrAfterStart(k, start) /\ AtOrBeforeEnd(k, end)}))]

Lookup_contains_key(m, key) == key \in DOMAIN m

Lookup_get(m, key) == IF key \in DOMAIN m THEN Some(m[key]) ELSE None

Lookup_get_mut(m, key) == IF key \in DOMAIN m THEN Some(m[key]) ELSE None

\* The map after remove, with the value that was removed, if any: the
\* backend's remove(key) of maps.rs:174, whose Option both callers consume
\* (multimap.rs:173 returns it, multiset.rs:202 matches on it).
Lookup_remove_Keep(m, key) ==
    [map |-> m,
     ret |-> IF key \in DOMAIN m THEN Some(m[key]) ELSE None]

Lookup_remove_Clear(m, key) ==
    [map |-> [k \in {} |-> 0],
     ret |-> IF key \in DOMAIN m THEN Some(m[key]) ELSE None]

Lookup_remove(m, key) ==
    [map |-> [k \in DOMAIN m \ {key} |-> m[k]],
     ret |-> IF key \in DOMAIN m THEN Some(m[key]) ELSE None]

\* ------------------------------------------------------ MultiMap (multimap.rs)
MultiMap_new == [map |-> Map_default, length |-> 0]

MultiMap_insert_AlwaysCount(self, key, value) ==
    LET m1 == Map_get_or_insert(self.map, key, Set_default)
        r == Set_insert(m1[key], value)
        m2 == [m1 EXCEPT ![key] = r.set]
    IN  [self |-> [map |-> m2, length |-> self.length + 1], ret |-> TRUE]

MultiMap_insert(self, key, value) ==
    LET m1 == Map_get_or_insert(self.map, key, Set_default)
        r == Set_insert(m1[key], value)
        m2 == [m1 EXCEPT ![key] = r.set]
    IN  IF r.ret
        THEN [self |-> [map |-> m2, length |-> self.length + 1], ret |-> TRUE]
        ELSE [self |-> [map |-> m2, length |-> self.length], ret |-> FALSE]

MultiMap_contains(self, key, value) ==
    LET g == Lookup_get(self.map, key)
    IN  IF g = None THEN FALSE ELSE Container_contains(g[1], value)

MultiMap_contains_key(self, key) == Lookup_contains_key(self.map, key)

MultiMap_remove_NoPrune(self, key, value) ==
    LET g == Lookup_get_mut(self.map, key)
    IN  IF g # None /\ Container_remove(g[1], value).ret
        THEN [self |-> [map |-> [self.map EXCEPT ![key] = @ \ {value}],
                        length |-> self.length - 1],
              ret |-> TRUE]
        ELSE [self |-> self, ret |-> FALSE]

MultiMap_remove_NoCount(self, key, value) ==
    LET g == Lookup_get_mut(self.map, key)
    IN  IF g # None /\ Container_remove(g[1], value).ret
        THEN LET m1 == [self.map EXCEPT ![key] = @ \ {value}]
                 m2 == IF Set_is_empty(m1[key])
                       THEN Lookup_remove(m1, key).map
                       ELSE m1
             IN  [self |-> [map |-> m2, length |-> self.length], ret |-> TRUE]
        ELSE [self |-> self, ret |-> FALSE]

MultiMap_remove_CountAlways(self, key, value) ==
    LET g == Lookup_get_mut(self.map, key)
    IN  IF g # None
        THEN LET r == Container_remove(g[1], value)
                 m1 == [self.map EXCEPT ![key] = r.set]
                 m2 == IF Set_is_empty(r.set)
                       THEN Lookup_remove(m1, key).map
                       ELSE m1
             IN  [self |-> [map |-> m2, length |-> self.length - 1],
                  ret |-> r.ret]
        ELSE [self |-> self, ret |-> FALSE]

MultiMap_remove(self, key, value) ==
    LET g == Lookup_get_mut(self.map, key)
    IN  IF g # None
        THEN LET r == Container_remove(g[1], value)
                 m1 == [self.map EXCEPT ![key] = r.set]
             IN  IF r.ret
                 THEN LET m2 == IF Set_is_empty(r.set)
                                THEN Lookup_remove(m1, key).map
                                ELSE m1
                      IN  [self |-> [map |-> m2, length |-> self.length - 1],
                           ret |-> TRUE]
                 ELSE [self |-> [map |-> m1, length |-> self.length],
                       ret |-> FALSE]
        ELSE [self |-> self, ret |-> FALSE]

MultiMap_remove_key_Get(self, key) ==
    [self |-> self, ret |-> Lookup_get(self.map, key)]

MultiMap_remove_key(self, key) ==
    LET r == Lookup_remove(self.map, key)
    IN  [self |-> [map |-> r.map, length |-> self.length], ret |-> r.ret]

MultiMap_get(self, key) == Lookup_get(self.map, key)

MultiMap_keys(self) == Map_keys(self.map)

MultiMap_value_sets(self) == Map_iter(self.map)

\* The pairs (k, v) for the values v a value-set yields, in its order.
RECURSIVE PairsOf(_, _)
PairsOf(k, vs) ==
    IF vs = << >> THEN << >>
    ELSE << << k, Head(vs) >> >> \o PairsOf(k, Tail(vs))

\* flat_map(|(k, s)| s.iter().map(move |v| (k, v))) over a sequence of entries.
RECURSIVE FlatMapPairs(_)
FlatMapPairs(entries) ==
    IF entries = << >> THEN << >>
    ELSE PairsOf(Head(entries)[1], Set_iter(Head(entries)[2]))
             \o FlatMapPairs(Tail(entries))

MultiMap_mappings(self) == FlatMapPairs(MultiMap_value_sets(self))

MultiMap_is_empty(self) == Map_is_empty(self.map)

MultiMap_num_keys(self) == Map_len(self.map)

MultiMap_num_mappings(self) == self.length

\* ---------------------------------------------------------- MultiMap calls
MMInit ==
    /\ mm = MultiMap_new
    /\ mmPre = MultiMap_new
    /\ mmOp = [name |-> "new"]
    /\ mmRef = {}
    /\ mmRoot = FALSE

MMInsert ==
    \E key \in Keys, value \in Vals :
        LET r == MultiMap_insert(mm, key, value)
        IN  /\ mm.length < MaxLength
            /\ mm' = r.self
            /\ mmPre' = mm
            /\ mmOp' = [name |-> "insert", key |-> key, value |-> value,
                        ret |-> r.ret]
            /\ mmRef' = mmRef \cup {<< key, value >>}
            /\ mmRoot' = TRUE
            /\ UNCHANGED << msVars, mmiVars, overflow_checks >>

MMRemove ==
    \E key \in Keys, value \in Vals :
        LET r == MultiMap_remove(mm, key, value)
        IN  /\ mm' = r.self
            /\ mmPre' = mm
            /\ mmOp' = [name |-> "remove", key |-> key, value |-> value,
                        ret |-> r.ret]
            /\ mmRef' = mmRef \ {<< key, value >>}
            /\ mmRoot' = mmRoot
            /\ UNCHANGED << msVars, mmiVars, overflow_checks >>

MMRemoveKey ==
    \E key \in Keys :
        LET r == MultiMap_remove_key(mm, key)
        IN  /\ mm' = r.self
            /\ mmPre' = mm
            /\ mmOp' = [name |-> "remove_key", key |-> key, ret |-> r.ret]
            /\ mmRef' = {p \in mmRef : p[1] # key}
            /\ mmRoot' = mmRoot
            /\ UNCHANGED << msVars, mmiVars, overflow_checks >>

MMNext == MMInsert \/ MMRemove \/ MMRemoveKey

\* Extend::extend: insert each (key, value) item, in the iterator's order.
RECURSIVE MultiMap_extend(_, _)
MultiMap_extend(self, iter) ==
    IF iter = << >> THEN self
    ELSE MultiMap_extend(MultiMap_insert(self, Head(iter)[1], Head(iter)[2]).self,
                         Tail(iter))

\* FromIterator::from_iter: a new multi-map extended by the iterator.
MultiMap_from_iter(iter) == MultiMap_extend(MultiMap_new, iter)

\* From<[(key, value); N]>: the array's items collected.
MultiMap_from(arr) == MultiMap_from_iter(arr)

\* Range queries of a MultiMap over a sorted key backend.
MultiMap_value_sets_in_range(self, hasRoot, start, end) ==
    SortedMap_range(self.map, hasRoot, start, end)

MultiMap_mappings_in_range(self, hasRoot, start, end) ==
    LET r == SortedMap_range(self.map, hasRoot, start, end)
    IN  [panicked |-> r.panicked, items |-> FlatMapPairs(r.items)]

MMValueSetsInRange ==
    \E start \in StartBounds(RangeKeys), end \in EndBounds(RangeKeys) :
        /\ mm' = mm
        /\ mmPre' = mm
        /\ mmOp' = [name |-> "value_sets_in_range", start |-> start, end |-> end,
                    ret |-> MultiMap_value_sets_in_range(mm, mmRoot, start, end)]
        /\ mmRef' = mmRef
        /\ mmRoot' = mmRoot
        /\ UNCHANGED << msVars, mmiVars, overflow_checks >>

MMMappingsInRange ==
    \E start \in StartBounds(RangeKeys), end \in EndBounds(RangeKeys) :
        /\ mm' = mm
        /\ mmPre' = mm
        /\ mmOp' = [name |-> "mappings_in_range", start |-> start, end |-> end,
                    ret |-> MultiMap_mappings_in_range(mm, mmRoot, start, end)]
        /\ mmRef' = mmRef
        /\ mmRoot' = mmRoot
        /\ UNCHANGED << msVars, mmiVars, overflow_checks >>

MMSortedNext == MMNext \/ MMValueSetsInRange \/ MMMappingsInRange

\* ------------------------------------------------------ MultiSet (multiset.rs)
MultiSet_new == [map |-> Map_default, length |-> 0]

MultiSet_insert_some_Overwrite(self, value, count) ==
    LET length1 == self.length + count
        m1 == Map_get_or_insert(self.map, value, 0)
        have == m1[value]
    IN  [self |-> [map |-> [m1 EXCEPT ![value] = count], length |-> length1],
         ret |-> have]

MultiSet_insert_some(self, value, count) ==
    LET length1 == self.length + count
        m1 == Map_get_or_insert(self.map, value, 0)
        have == m1[value]
    IN  [self |-> [map |-> [m1 EXCEPT ![value] = have + count],
                   length |-> length1],
         ret |-> have]

MultiSet_insert(self, value) == MultiSet_insert_some(self, value, 1)

MultiSet_remove_all_NoLength(self, value) ==
    LET r == Lookup_remove(self.map, value)
    IN  [self |-> [map |-> r.map, length |-> self.length],
         ret |-> IF r.ret # None THEN r.ret[1] ELSE 0]

MultiSet_remove_all(self, value) ==
    LET r == Lookup_remove(self.map, value)
    IN  IF r.ret # None
        THEN [self |-> [map |-> r.map, length |-> self.length - r.ret[1]],
              ret |-> r.ret[1]]
        ELSE [self |-> [map |-> r.map, length |-> self.length], ret |-> 0]

MultiSet_set_count_KeepPrev(self, value, count) ==
    IF count = 0 THEN MultiSet_remove_all(self, value)
    ELSE LET m1 == Map_get_or_insert(self.map, value, 0)
             prev == m1[value]
             m2 == [m1 EXCEPT ![value] = count]
         IN  [self |-> [map |-> m2, length |-> self.length + m2[value]],
              ret |-> prev]

MultiSet_set_count(self, value, count) ==
    IF count = 0 THEN MultiSet_remove_all(self, value)
    ELSE LET m1 == Map_get_or_insert(self.map, value, 0)
             prev == m1[value]
             m2 == [m1 EXCEPT ![value] = count]
             length1 == self.length + m2[value]
         IN  [self |-> [map |-> m2, length |-> length1 - prev], ret |-> prev]

MultiSet_remove_at_most_SubtractMax(self, value, max) ==
    LET g == Lookup_get_mut(self.map, value)
    IN  IF g # None
        THEN LET prev == g[1]
                 removed == IF prev <= max THEN prev ELSE max
                 m1 == [self.map EXCEPT ![value] = prev - removed]
                 m2 == IF m1[value] = 0 THEN Lookup_remove(m1, value).map
                       ELSE m1
             IN  [self |-> [map |-> m2, length |-> self.length - max],
                  ret |-> prev]
        ELSE [self |-> self, ret |-> 0]

MultiSet_remove_at_most_NoPrune(self, value, max) ==
    LET g == Lookup_get_mut(self.map, value)
    IN  IF g # None
        THEN LET prev == g[1]
                 removed == IF prev <= max THEN prev ELSE max
             IN  [self |-> [map |-> [self.map EXCEPT ![value] = prev - removed],
                            length |-> self.length - removed],
                  ret |-> prev]
        ELSE [self |-> self, ret |-> 0]

MultiSet_remove_at_most_Unclamped(self, value, max) ==
    LET g == Lookup_get_mut(self.map, value)
        length1 == self.length - max
    IN  IF g # None
        THEN LET prev == g[1]
                 removed == IF prev <= max THEN prev ELSE max
                 m1 == [self.map EXCEPT ![value] = prev - removed]
                 m2 == IF m1[value] = 0 THEN Lookup_remove(m1, value).map
                       ELSE m1
             IN  [self |-> [map |-> m2, length |-> self.length - removed],
                  ret |-> prev]
        ELSE [self |-> [map |-> self.map, length |-> length1], ret |-> 0]

MultiSet_remove_at_most(self, value, max) ==
    LET g == Lookup_get_mut(self.map, value)
    IN  IF g # None
        THEN LET prev == g[1]
                 removed == IF prev <= max THEN prev ELSE max
                 m1 == [self.map EXCEPT ![value] = prev - removed]
                 m2 == IF m1[value] = 0 THEN Lookup_remove(m1, value).map
                       ELSE m1
             IN  [self |-> [map |-> m2, length |-> self.length - removed],
                  ret |-> prev]
        ELSE [self |-> self, ret |-> 0]

MultiSet_remove(self, value) == MultiSet_remove_at_most(self, value, 1)

MultiSet_contains(self, value) == Lookup_contains_key(self.map, value)

MultiSet_count(self, value) ==
    LET g == Lookup_get(self.map, value)
    IN  IF g = None THEN 0 ELSE g[1]

MultiSet_is_empty(self) == self.length = 0

MultiSet_len(self) == self.length

\* std::iter::repeat(k).take(n)
RECURSIVE RepeatTake(_, _)
RepeatTake(k, n) == IF n = 0 THEN << >> ELSE << k >> \o RepeatTake(k, n - 1)

\* flat_map(|(k, &v)| std::iter::repeat(k).take(v)) over a sequence of entries.
RECURSIVE FlatMapRepeat(_)
FlatMapRepeat(entries) ==
    IF entries = << >> THEN << >>
    ELSE RepeatTake(Head(entries)[1], Head(entries)[2])
             \o FlatMapRepeat(Tail(entries))

MultiSet_iter_Keys(self) == Map_keys(self.map)

MultiSet_iter(self) == FlatMapRepeat(Map_iter(self.map))

MultiSet_counts(self) == Map_iter(self.map)

\* ---------------------------------------------------------- MultiSet calls
MSInit ==
    /\ ms = MultiSet_new
    /\ msPre = MultiSet_new
    /\ msOp = [name |-> "new"]
    /\ msRoot = FALSE

MSInsert ==
    \E value \in Elems :
        LET r == MultiSet_insert(ms, value)
        IN  /\ ms.length + 1 <= MaxSetLength
            /\ ms' = r.self
            /\ msPre' = ms
            /\ msOp' = [name |-> "insert", value |-> value, arg |-> 1,
                        ret |-> r.ret]
            /\ msRoot' = TRUE
            /\ UNCHANGED << mmVars, mmiVars, overflow_checks >>

MSInsertSome ==
    \E value \in Elems, count \in Counts :
        LET r == MultiSet_insert_some(ms, value, count)
        IN  /\ ms.length + count <= MaxSetLength
            /\ ms' = r.self
            /\ msPre' = ms
            /\ msOp' = [name |-> "insert_some", value |-> value,
                        arg |-> count, ret |-> r.ret]
            /\ msRoot' = TRUE
            /\ UNCHANGED << mmVars, mmiVars, overflow_checks >>

MSSetCount ==
    \E value \in Elems, count \in Counts :
        LET r == MultiSet_set_count(ms, value, count)
        IN  /\ ms.length + count <= MaxSetLength
            /\ ms' = r.self
            /\ msPre' = ms
            /\ msOp' = [name |-> "set_count", value |-> value,
                        arg |-> count, ret |-> r.ret]
            /\ msRoot' = (msRoot \/ count # 0)
            /\ UNCHANGED << mmVars, mmiVars, overflow_checks >>

MSRemove ==
    \E value \in Elems :
        LET r == MultiSet_remove(ms, value)
        IN  /\ ms' = r.self
            /\ msPre' = ms
            /\ msOp' = [name |-> "remove", value |-> value, arg |-> 1,
                        ret |-> r.ret]
            /\ msRoot' = msRoot
            /\ UNCHANGED << mmVars, mmiVars, overflow_checks >>

MSRemoveAtMost ==
    \E value \in Elems, max \in Counts :
        LET r == MultiSet_remove_at_most(ms, value, max)
        IN  /\ ms' = r.self
            /\ msPre' = ms
            /\ msOp' = [name |-> "remove_at_most", value |-> value,
                        arg |-> max, ret |-> r.ret]
            /\ msRoot' = msRoot
            /\ UNCHANGED << mmVars, mmiVars, overflow_checks >>

MSRemoveAll ==
    \E value \in Elems :
        LET r == MultiSet_remove_all(ms, value)
        IN  /\ ms' = r.self
            /\ msPre' = ms
            /\ msOp' = [name |-> "remove_all", value |-> value, arg |-> 0,
                        ret |-> r.ret]
            /\ msRoot' = msRoot
            /\ UNCHANGED << mmVars, mmiVars, overflow_checks >>

MSNext ==
    \/ MSInsert
    \/ MSInsertSome
    \/ MSSetCount
    \/ MSRemove
    \/ MSRemoveAtMost
    \/ MSRemoveAll

\* ------------------------------------------------------------ specifications
\* Extend::extend: insert each value, in the iterator's order.
MultiSet_extend_Distinct(self, iter) ==
    LET present == {iter[i] : i \in 1 .. Len(iter)}
        entries == [v \in DOMAIN self.map \cup present |->
                       IF v \in present
                       THEN (IF v \in DOMAIN self.map THEN self.map[v] ELSE 0) + 1
                       ELSE self.map[v]]
    IN  [map |-> entries, length |-> self.length + Cardinality(present)]

RECURSIVE MultiSet_extend(_, _)
MultiSet_extend(self, iter) ==
    IF iter = << >> THEN self
    ELSE MultiSet_extend(MultiSet_insert(self, Head(iter)).self, Tail(iter))

\* FromIterator::from_iter: a default multi-set extended by the iterator.
MultiSet_from_iter(iter) == MultiSet_extend(MultiSet_new, iter)

\* From<[value; N]>: the array's items collected.
MultiSet_from(array) == MultiSet_from_iter(array)

\* Range queries of a MultiSet over a sorted backend.
MultiSet_range(self, hasRoot, start, end) ==
    LET r == SortedMap_range(self.map, hasRoot, start, end)
    IN  [panicked |-> r.panicked, items |-> FlatMapRepeat(r.items)]

MultiSet_range_counts(self, hasRoot, start, end) ==
    SortedMap_range(self.map, hasRoot, start, end)

\* The values a MultiSet range's ends may name: every value, one below and
\* one above.
RangeElems == 0 .. NumElems + 1

MSRange ==
    \E start \in StartBounds(RangeElems), end \in EndBounds(RangeElems) :
        /\ ms' = ms
        /\ msPre' = ms
        /\ msOp' = [name |-> "range", start |-> start, end |-> end,
                    ret |-> MultiSet_range(ms, msRoot, start, end)]
        /\ msRoot' = msRoot
        /\ UNCHANGED << mmVars, mmiVars, overflow_checks >>

MSRangeCounts ==
    \E start \in StartBounds(RangeElems), end \in EndBounds(RangeElems) :
        /\ ms' = ms
        /\ msPre' = ms
        /\ msOp' = [name |-> "range_counts", start |-> start, end |-> end,
                    ret |-> MultiSet_range_counts(ms, msRoot, start, end)]
        /\ msRoot' = msRoot
        /\ UNCHANGED << mmVars, mmiVars, overflow_checks >>

MSSortedNext == MSNext \/ MSRange \/ MSRangeCounts

\* ------------------------------------- the MultiSet as a Set (sets.rs)
\* impl Set for MultiSet.
SetForMultiSet_insert(self, value) ==
    LET r == MultiSet_insert(self, value)
    IN  [self |-> r.self, ret |-> r.ret = 0]

SetForMultiSet_len(self) == MultiSet_len(self)

SetForMultiSet_iter(self) == MultiSet_iter(self)

\* impl Container for MultiSet.
ContainerForMultiSet_remove(self, value) ==
    LET r == MultiSet_remove(self, value)
    IN  [self |-> r.self, ret |-> r.ret = 1]

ContainerForMultiSet_contains(self, value) == MultiSet_contains(self, value)

MSSetInsert ==
    \E value \in Elems :
        LET r == SetForMultiSet_insert(ms, value)
        IN  /\ ms.length + 1 <= MaxSetLength
            /\ ms' = r.self
            /\ msPre' = ms
            /\ msOp' = [name |-> "Set::insert", value |-> value, arg |-> 1,
                        ret |-> r.ret]
            /\ msRoot' = TRUE
            /\ UNCHANGED << mmVars, mmiVars, overflow_checks >>

MSContainerRemove ==
    \E value \in Elems :
        LET r == ContainerForMultiSet_remove(ms, value)
        IN  /\ ms' = r.self
            /\ msPre' = ms
            /\ msOp' = [name |-> "Container::remove", value |-> value, arg |-> 1,
                        ret |-> r.ret]
            /\ msRoot' = msRoot
            /\ UNCHANGED << mmVars, mmiVars, overflow_checks >>

MSAsSetNext == MSNext \/ MSSetInsert \/ MSContainerRemove

\* ------------------------------------------------------------- queries
\* contains takes &mut self: the call as a change of the multi-map. It only
\* reads, through Lookup::get.
MultiMap_contains_mut_GetOrInsert(self, key, value) ==
    LET m1 == Map_get_or_insert(self.map, key, Set_default)
    IN  [self |-> [map |-> m1, length |-> self.length],
         ret |-> Container_contains(m1[key], value)]

MultiMap_contains_mut(self, key, value) ==
    [self |-> self, ret |-> MultiMap_contains(self, key, value)]

MMContains ==
    \E key \in Keys, value \in Vals :
        LET r == MultiMap_contains_mut(mm, key, value)
        IN  /\ mm' = r.self
            /\ mmPre' = mm
            /\ mmOp' = [name |-> "contains", key |-> key, value |-> value,
                        ret |-> r.ret]
            /\ UNCHANGED << mmRef, mmRoot >>
            /\ UNCHANGED << msVars, mmiVars, overflow_checks >>

\* The other queries take &self: the call returns and the multi-map is the
\* one it was given.
MMQuery ==
    \E key \in Keys, i \in 1..8 :
        /\ mmPre' = mm
        /\ mmOp' = << [name |-> "contains_key", key |-> key,
                       ret |-> MultiMap_contains_key(mm, key)],
                      [name |-> "get", key |-> key, ret |-> MultiMap_get(mm, key)],
                      [name |-> "keys", ret |-> MultiMap_keys(mm)],
                      [name |-> "value_sets", ret |-> MultiMap_value_sets(mm)],
                      [name |-> "mappings", ret |-> MultiMap_mappings(mm)],
                      [name |-> "is_empty", ret |-> MultiMap_is_empty(mm)],
                      [name |-> "num_keys", ret |-> MultiMap_num_keys(mm)],
                      [name |-> "num_mappings", ret |-> MultiMap_num_mappings(mm)] >>[i]
        /\ UNCHANGED << mm, mmRef, mmRoot >>
        /\ UNCHANGED << msVars, mmiVars, overflow_checks >>

\* The MultiSet's queries all take &self.
MSQuery ==
    \E value \in Elems, i \in 1..6 :
        /\ msPre' = ms
        /\ msOp' = << [name |-> "contains", value |-> value,
                       ret |-> MultiSet_contains(ms, value)],
                      [name |-> "count", value |-> value,
                       ret |-> MultiSet_count(ms, value)],
                      [name |-> "is_empty", ret |-> MultiSet_is_empty(ms)],
                      [name |-> "len", ret |-> MultiSet_len(ms)],
                      [name |-> "iter", ret |-> MultiSet_iter(ms)],
                      [name |-> "counts", ret |-> MultiSet_counts(ms)] >>[i]
        /\ UNCHANGED << ms, msRoot >>
        /\ UNCHANGED << mmVars, mmiVars, overflow_checks >>

\* A run with queries exercises one of the two containers: the calls of one
\* are made while the other is still as constructed.
QueryNext ==
    \/ msOp.name = "new" /\ (MMNext \/ MMContains \/ MMQuery)
    \/ mmOp.name = "new" /\ (MSNext \/ MSQuery)

\* ------------------------------------- lookups by the borrowed form of a key
\* Keys and values stand for owned Strings; a call may instead be given the
\* borrowed form, a str with the same contents. The backend compares the
\* borrowed form of each stored key with the one it is given.
as_str_Lossy(owned) == << "str", 0 >>

as_str(owned) == << "str", owned >>

Lookup_contains_key_borrowed(m, q) == \E k \in DOMAIN m : as_str(k) = q

Lookup_get_borrowed(m, q) ==
    IF \E k \in DOMAIN m : as_str(k) = q
    THEN Some(m[CHOOSE k \in DOMAIN m : as_str(k) = q])
    ELSE None

Lookup_remove_borrowed(m, q) ==
    [map |-> [k \in {j \in DOMAIN m : as_str(j) # q} |-> m[k]],
     ret |-> Lookup_get_borrowed(m, q)]

Container_contains_borrowed(s, r) == \E v \in s : as_str(v) = r

Container_remove_borrowed(s, r) ==
    [set |-> {v \in s : as_str(v) # r}, ret |-> \E v \in s : as_str(v) = r]

MultiMap_contains_key_borrowed(self, q) == Lookup_contains_key_borrowed(self.map, q)

MultiMap_get_borrowed(self, q) == Lookup_get_borrowed(self.map, q)

MultiMap_contains_borrowed(self, q, r) ==
    LET g == Lookup_get_borrowed(self.map, q)
    IN  IF g = None THEN FALSE ELSE Container_contains_borrowed(g[1], r)

MultiMap_remove_borrowed(self, q, r) ==
    LET g == Lookup_get_borrowed(self.map, q)
    IN  IF g # None
        THEN LET rem == Container_remove_borrowed(g[1], r)
                 m1 == [k \in DOMAIN self.map |->
                           IF as_str(k) = q THEN rem.set ELSE self.map[k]]
             IN  IF rem.ret
                 THEN LET m2 == IF Set_is_empty(rem.set)
                                THEN Lookup_remove_borrowed(m1, q).map
                                ELSE m1
                      IN  [self |-> [map |-> m2, length |-> self.length - 1],
                           ret |-> TRUE]
                 ELSE [self |-> [map |-> m1, length |-> self.length],
                       ret |-> FALSE]
        ELSE [self |-> self, ret |-> FALSE]

\* The strs a call may be given: those of every key or value, and one more.
BorrowedKeys == {as_str(k) : k \in 0 .. NumKeys}

BorrowedVals == {as_str(v) : v \in 0 .. NumVals}

MMLookupBorrowed ==
    \E q \in BorrowedKeys, r \in BorrowedVals, i \in 1..3 :
        /\ mmPre' = mm
        /\ mmOp' = << [name |-> "contains_key(str)", key |-> q,
                       ret |-> MultiMap_contains_key_borrowed(mm, q)],
                      [name |-> "get(str)", key |-> q,
                       ret |-> MultiMap_get_borrowed(mm, q)],
                      [name |-> "contains(str)", key |-> q, value |-> r,
                       ret |-> MultiMap_contains_borrowed(mm, q, r)] >>[i]
        /\ UNCHANGED << mm, mmRef, mmRoot >>
        /\ UNCHANGED << msVars, mmiVars, overflow_checks >>

MMRemoveBorrowed ==
    \E q \in BorrowedKeys, r \in BorrowedVals :
        LET res == MultiMap_remove_borrowed(mm, q, r)
        IN  /\ mm' = res.self
            /\ mmPre' = mm
            /\ mmOp' = [name |-> "remove(str)", key |-> q, value |-> r,
                        ret |-> res.ret]
            /\ mmRef' = {p \in mmRef : ~(as_str(p[1]) = q /\ as_str(p[2]) = r)}
            /\ mmRoot' = mmRoot
            /\ UNCHANGED << msVars, mmiVars, overflow_checks >>

MMBorrowedNext ==
    \/ MMNext
    \/ MMLookupBorrowed
    \/ MMRemoveBorrowed

\* ------------------------------------------ MultiMapImpl (lib.rs)
MultiMapImpl_new == [data |-> Map_default, len |-> 0]

MultiMapImpl_insert(self, key, value) ==
    LET data1 == Map_get_or_insert(self.data, key, Set_default)
        r == Set_insert(data1[key], value)
    IN  [self |-> [data |-> [data1 EXCEPT ![key] = r.set],
                   len |-> IF r.ret THEN self.len + 1 ELSE self.len],
         ret |-> r.ret]

MultiMapImpl_remove(self, key, value) ==
    IF Lookup_get_mut(self.data, key) = None
    THEN [self |-> self, ret |-> FALSE]
    ELSE LET r == Container_remove(self.data[key], value)
         IN  IF ~r.ret THEN [self |-> self, ret |-> FALSE]
             ELSE LET data1 == [self.data EXCEPT ![key] = r.set]
                  IN  [self |-> [data |-> IF Set_is_empty(r.set)
                                          THEN Lookup_remove(data1, key).map
                                          ELSE data1,
                                 len |-> self.len - 1],
                       ret |-> TRUE]

\* get_mut hands the caller the key's value-set itself, to change in place:
\* Some(key) stands for the mutable reference to self.data[key].
MultiMapImpl_get_mut(self, key) ==
    IF Lookup_get_mut(self.data, key) = None THEN None ELSE Some(key)

MultiMapImpl_iter(self) == FlatMapPairs(Map_iter(self.data))

MultiMapImpl_len(self) == self.len

MMIInit ==
    /\ mmi = MultiMapImpl_new
    /\ mmiPre = MultiMapImpl_new
    /\ mmiOp = [name |-> "new"]

MMIInsert ==
    \E key \in Keys, value \in Vals :
        LET r == MultiMapImpl_insert(mmi, key, value)
        IN  /\ mmi.len < MaxLength
            /\ mmi' = r.self
            /\ mmiPre' = mmi
            /\ mmiOp' = [name |-> "insert", key |-> key, value |-> value,
                         ret |-> r.ret]
            /\ UNCHANGED << mmVars, msVars, overflow_checks >>

\* The call is made only while its decrement stays within the counter.
MMIRemove ==
    \E key \in Keys, value \in Vals :
        LET r == MultiMapImpl_remove(mmi, key, value)
        IN  /\ r.ret => mmi.len > 0
            /\ mmi' = r.self
            /\ mmiPre' = mmi
            /\ mmiOp' = [name |-> "remove", key |-> key, value |-> value,
                         ret |-> r.ret]
            /\ UNCHANGED << mmVars, msVars, overflow_checks >>

\* map.get_mut(&key).map(|set| set.insert(value))
MMIGetMutInsert ==
    \E key \in Keys, value \in Vals :
        LET g == MultiMapImpl_get_mut(mmi, key)
        IN  /\ mmiPre' = mmi
            /\ IF g = None
               THEN /\ mmi' = mmi
                    /\ mmiOp' = [name |-> "get_mut.insert", key |-> key,
                                 value |-> value, ret |-> None]
               ELSE LET r == Set_insert(mmi.data[g[1]], value)
                    IN  /\ mmi' = [mmi EXCEPT !.data[g[1]] = r.set]
                        /\ mmiOp' = [name |-> "get_mut.insert", key |-> key,
                                     value |-> value, ret |-> Some(r.ret)]
            /\ UNCHANGED << mmVars, msVars, overflow_checks >>

\* map.get_mut(&key).map(|set| set.remove(&value))
MMIGetMutRemove ==
    \E key \in Keys, value \in Vals :
        LET g == MultiMapImpl_get_mut(mmi, key)
        IN  /\ mmiPre' = mmi
            /\ IF g = None
               THEN /\ mmi' = mmi
                    /\ mmiOp' = [name |-> "get_mut.remove", key |-> key,
                                 value |-> value, ret |-> None]
               ELSE LET r == Container_remove(mmi.data[g[1]], value)
                    IN  /\ mmi' = [mmi EXCEPT !.data[g[1]] = r.set]
                        /\ mmiOp' = [name |-> "get_mut.remove", key |-> key,
                                     value |-> value, ret |-> Some(r.ret)]
            /\ UNCHANGED << mmVars, msVars, overflow_checks >>

MMINext == MMIInsert \/ MMIRemove \/ MMIGetMutInsert \/ MMIGetMutRemove

\* ----------------------------------- the MultiSet's counters as usize
\* (calls with any usize argument)
UsizeModulus == 2 ^ UsizeBits

UsizeMax == UsizeModulus - 1

Usize == 0 .. UsizeMax

\* a + b on usize: the sum wraps; with overflow checks an overflowing sum
\* panics instead.
usize_add(a, b) ==
    [value |-> (a + b) % UsizeModulus, overflowed |-> a + b > UsizeMax]

\* a - b on usize: likewise.
usize_sub(a, b) ==
    [value |-> (a + UsizeModulus - b) % UsizeModulus, overflowed |-> b > a]

\* The outcome of a call: the multi-set it leaves, what it returned (0 when
\* it panicked), whether it panicked, and whether an addition went above
\* usize::MAX or a subtraction below 0 on the way.
Outcome(self, ret, panicked, added_over, subtracted_under) ==
    [self |-> self, ret |-> ret, panicked |-> panicked,
     added_over |-> added_over, subtracted_under |-> subtracted_under]

MultiSet_insert_some_usize(self, value, count, checks) ==
    LET length1 == usize_add(self.length, count)
        m1 == Map_get_or_insert(self.map, value, 0)
        have == m1[value]
        sum == usize_add(have, count)
    IN  IF length1.overflowed /\ checks
        THEN Outcome(self, 0, TRUE, TRUE, FALSE)
        ELSE IF sum.overflowed /\ checks
        THEN Outcome([map |-> m1, length |-> length1.value], 0, TRUE, TRUE, FALSE)
        ELSE Outcome([map |-> [m1 EXCEPT ![value] = sum.value],
                      length |-> length1.value],
                     have, FALSE, length1.overflowed \/ sum.overflowed, FALSE)

MultiSet_remove_all_usize(self, value, checks) ==
    LET r == Lookup_remove(self.map, value)
    IN  IF r.ret = None THEN Outcome(self, 0, FALSE, FALSE, FALSE)
        ELSE LET count == r.ret[1]
                 length1 == usize_sub(self.length, count)
             IN  IF length1.overflowed /\ checks
                 THEN Outcome([map |-> r.map, length |-> self.length],
                              0, TRUE, FALSE, TRUE)
                 ELSE Outcome([map |-> r.map, length |-> length1.value],
                              count, FALSE, FALSE, length1.overflowed)

MultiSet_set_count_usize(self, value, count, checks) ==
    IF count = 0 THEN MultiSet_remove_all_usize(self, value, checks)
    ELSE LET m1 == Map_get_or_insert(self.map, value, 0)
             prev == m1[value]
             m2 == [m1 EXCEPT ![value] = count]
             length1 == usize_add(self.length, m2[value])
             length2 == usize_sub(length1.value, prev)
         IN  IF length1.overflowed /\ checks
             THEN Outcome([map |-> m2, length |-> self.length], 0, TRUE, TRUE, FALSE)
             ELSE IF length2.overflowed /\ checks
             THEN Outcome([map |-> m2, length |-> length1.value],
                          0, TRUE, length1.overflowed, TRUE)
             ELSE Outcome([map |-> m2, length |-> length2.value],
                          prev, FALSE, length1.overflowed, length2.overflowed)

MultiSet_remove_at_most_usize(self, value, max, checks) ==
    LET g == Lookup_get_mut(self.map, value)
    IN  IF g = None THEN Outcome(self, 0, FALSE, FALSE, FALSE)
        ELSE LET prev == g[1]
                 removed == IF prev <= max THEN prev ELSE max
                 m1 == [self.map EXCEPT ![value] = prev - removed]
                 length1 == usize_sub(self.length, removed)
                 m2 == IF m1[value] = 0 THEN Lookup_remove(m1, value).map
                       ELSE m1
             IN  IF length1.overflowed /\ checks
                 THEN Outcome([map |-> m1, length |-> self.length],
                              0, TRUE, FALSE, TRUE)
                 ELSE Outcome([map |-> m2, length |-> length1.value],
                              prev, FALSE, FALSE, length1.overflowed)

MSUsizeInsertSome ==
    \E value \in Elems, count \in Usize :
        /\ LET r == MultiSet_insert_some_usize(ms, value, count, overflow_checks)
           IN  /\ ms' = r.self
               /\ msOp' = [name |-> "insert_some", value |-> value, arg |-> count,
                           ret |-> r.ret, panicked |-> r.panicked,
                           added_over |-> r.added_over,
                           subtracted_under |-> r.subtracted_under]
        /\ msPre' = ms
        /\ msRoot' = (msRoot \/ value \in DOMAIN ms'.map)
        /\ UNCHANGED << mmVars, mmiVars, overflow_checks >>

MSUsizeSetCount ==
    \E value \in Elems, count \in Usize :
        /\ LET r == MultiSet_set_count_usize(ms, value, count, overflow_checks)
           IN  /\ ms' = r.self
               /\ msOp' = [name |-> "set_count", value |-> value, arg |-> count,
                           ret |-> r.ret, panicked |-> r.panicked,
                           added_over |-> r.added_over,
                           subtracted_under |-> r.subtracted_under]
        /\ msPre' = ms
        /\ msRoot' = (msRoot \/ count # 0)
        /\ UNCHANGED << mmVars, mmiVars, overflow_checks >>

MSUsizeRemoveAtMost ==
    \E value \in Elems, max \in Usize :
        /\ LET r == MultiSet_remove_at_most_usize(ms, value, max, overflow_checks)
           IN  /\ ms' = r.self
               /\ msOp' = [name |-> "remove_at_most", value |-> value, arg |-> max,
                           ret |-> r.ret, panicked |-> r.panicked,
                           added_over |-> r.added_over,
                           subtracted_under |-> r.subtracted_under]
        /\ msPre' = ms
        /\ msRoot' = msRoot
        /\ UNCHANGED << mmVars, mmiVars, overflow_checks >>

MSUsizeRemoveAll ==
    \E value \in Elems :
        /\ LET r == MultiSet_remove_all_usize(ms, value, overflow_checks)
           IN  /\ ms' = r.self
               /\ msOp' = [name |-> "remove_all", value |-> value, arg |-> 0,
                           ret |-> r.ret, panicked |-> r.panicked,
                           added_over |-> r.added_over,
                           subtracted_under |-> r.subtracted_under]
        /\ msPre' = ms
        /\ msRoot' = msRoot
        /\ UNCHANGED << mmVars, mmiVars, overflow_checks >>

MSUsizeNext ==
    MSUsizeInsertSome \/ MSUsizeSetCount \/ MSUsizeRemoveAtMost \/ MSUsizeRemoveAll

\* ------------------------------------------- building from iterators, arrays
\* The finite sequences of at most n items of S.
SeqsUpTo(S, n) == UNION {[1 .. k -> S] : k \in 0 .. n}

PairIters == SeqsUpTo(Keys \X Vals, MaxItems)

ElemIters == SeqsUpTo(Elems, MaxItems)

\* A run of the building calls exercises one of the two containers: the
\* calls of one are made while the other is still as constructed.
MMExtend ==
    \E iter \in PairIters :
        /\ msOp.name = "new"
        /\ mm.length + Len(iter) <= MaxLength
        /\ mm' = MultiMap_extend(mm, iter)
        /\ mmPre' = mm
        /\ mmOp' = [name |-> "extend", items |-> iter]
        /\ mmRef' = mmRef \cup {iter[i] : i \in 1 .. Len(iter)}
        /\ mmRoot' = (mmRoot \/ iter # << >>)
        /\ UNCHANGED << msVars, mmiVars, overflow_checks >>

MMFromIter ==
    \E iter \in PairIters :
        /\ msOp.name = "new"
        /\ mm' = MultiMap_from_iter(iter)
        /\ mmPre' = MultiMap_new
        /\ mmOp' = [name |-> "from_iter", items |-> iter]
        /\ mmRef' = {iter[i] : i \in 1 .. Len(iter)}
        /\ mmRoot' = (iter # << >>)
        /\ UNCHANGED << msVars, mmiVars, overflow_checks >>

MMFrom ==
    \E arr \in PairIters :
        /\ msOp.name = "new"
        /\ mm' = MultiMap_from(arr)
        /\ mmPre' = MultiMap_new
        /\ mmOp' = [name |-> "from", items |-> arr]
        /\ mmRef' = {arr[i] : i \in 1 .. Len(arr)}
        /\ mmRoot' = (arr # << >>)
        /\ UNCHANGED << msVars, mmiVars, overflow_checks >>

MSExtend ==
    \E iter \in ElemIters :
        /\ mmOp.name = "new"
        /\ ms.length + Len(iter) <= MaxSetLength
        /\ ms' = MultiSet_extend(ms, iter)
        /\ msPre' = ms
        /\ msOp' = [name |-> "extend", items |-> iter]
        /\ msRoot' = (msRoot \/ iter # << >>)
        /\ UNCHANGED << mmVars, mmiVars, overflow_checks >>

MSFromIter ==
    \E iter \in ElemIters :
        /\ mmOp.name = "new"
        /\ ms' = MultiSet_from_iter(iter)
        /\ msPre' = MultiSet_new
        /\ msOp' = [name |-> "from_iter", items |-> iter]
        /\ msRoot' = (iter # << >>)
        /\ UNCHANGED << mmVars, mmiVars, overflow_checks >>

MSFrom ==
    \E array \in ElemIters :
        /\ mmOp.name = "new"
        /\ ms' = MultiSet_from(array)
        /\ msPre' = MultiSet_new
        /\ msOp' = [name |-> "from", items |-> array]
        /\ msRoot' = (array # << >>)
        /\ UNCHANGED << mmVars, mmiVars, overflow_checks >>

BuildNext == MMExtend \/ MMFromIter \/ MMFrom \/ MSExtend \/ MSFromIter \/ MSFrom

\* ------------------- the MultiMap with MultiSet value-sets (M::Val = MultiSet)
SetForMultiSet_is_empty(self) == MultiSet_is_empty(self)

\* MultiMap::insert, its value-set a MultiSet through impl Set for MultiSet.
MultiMapOfMultiSets_insert(self, key, value) ==
    LET m1 == Map_get_or_insert(self.map, key, MultiSet_new)
        r == SetForMultiSet_insert(m1[key], value)
        m2 == [m1 EXCEPT ![key] = r.self]
    IN  IF r.ret
        THEN [self |-> [map |-> m2, length |-> self.length + 1], ret |-> TRUE]
        ELSE [self |-> [map |-> m2, length |-> self.length], ret |-> FALSE]

\* MultiMap::contains, through impl Container for MultiSet.
MultiMapOfMultiSets_contains(self, key, value) ==
    LET g == Lookup_get(self.map, key)
    IN  IF g = None THEN FALSE ELSE ContainerForMultiSet_contains(g[1], value)

\* MultiMap::remove, through impl Container for MultiSet.
MultiMapOfMultiSets_remove(self, key, value) ==
    LET g == Lookup_get_mut(self.map, key)
    IN  IF g # None
        THEN LET r == ContainerForMultiSet_remove(g[1], value)
                 m1 == [self.map EXCEPT ![key] = r.self]
             IN  IF r.ret
                 THEN LET m2 == IF SetForMultiSet_is_empty(r.self)
                                THEN Lookup_remove(m1, key).map
                                ELSE m1
                      IN  [self |-> [map |-> m2, length |-> self.length - 1],
                           ret |-> TRUE]
                 ELSE [self |-> [map |-> m1, length |-> self.length],
                       ret |-> FALSE]
        ELSE [self |-> self, ret |-> FALSE]

\* The calls on a MultiMap<M> whose M::Val is a MultiSet; mm starts as the
\* same MultiMap::new().  Each value-set is kept within MaxSetLength.
MMOfMultiSetsInsert ==
    \E key \in Keys, value \in Vals :
        LET r == MultiMapOfMultiSets_insert(mm, key, value)
        IN  /\ key \in DOMAIN mm.map => SetForMultiSet_len(mm.map[key]) < MaxSetLength
            /\ mm' = r.self
            /\ mmPre' = mm
            /\ mmOp' = [name |-> "insert", key |-> key, value |-> value,
                        ret |-> r.ret]
            /\ mmRef' = mmRef \cup {<< key, value >>}
            /\ mmRoot' = TRUE
            /\ UNCHANGED << msVars, mmiVars, overflow_checks >>

MMOfMultiSetsRemove ==
    \E key \in Keys, value \in Vals :
        LET r == MultiMapOfMultiSets_remove(mm, key, value)
        IN  /\ mm' = r.self
            /\ mmPre' = mm
            /\ mmOp' = [name |-> "remove", key |-> key, value |-> value,
                        ret |-> r.ret]
            /\ mmRef' = {p \in mmRef : MultiMapOfMultiSets_contains(r.self, p[1], p[2])}
            /\ mmRoot' = mmRoot
            /\ UNCHANGED << msVars, mmiVars, overflow_checks >>

MMOfMultiSetsNext == MMOfMultiSetsInsert \/ MMOfMultiSetsRemove

\* ------------------------------------------ a mutation followed by its inverse
\* insert(key, value) followed by remove(&key, &value), as in test_is_empty.
MMInsertThenRemove ==
    \E key \in Keys, value \in Vals :
        LET r1 == MultiMap_insert(mm, key, value)
            r2 == MultiMap_remove(r1.self, key, value)
        IN  /\ mm.length < MaxLength
            /\ mm' = r2.self
            /\ mmPre' = mm
            /\ mmOp' = [name |-> "insert;remove", key |-> key, value |-> value,
                        ret |-> << r1.ret, r2.ret >>]
            /\ mmRef' = mmRef \ {<< key, value >>}
            /\ mmRoot' = TRUE
            /\ UNCHANGED << msVars, mmiVars, overflow_checks >>

\* insert_some(value, count) followed by remove_at_most(&value, count).
MSInsertSomeThenRemoveAtMost ==
    \E value \in Elems, count \in Counts :
        LET r1 == MultiSet_insert_some(ms, value, count)
            r2 == MultiSet_remove_at_most(r1.self, value, count)
        IN  /\ ms.length + count <= MaxSetLength
            /\ ms' = r2.self
            /\ msPre' = ms
            /\ msOp' = [name |-> "insert_some;remove_at_most", value |-> value,
                        arg |-> count, ret |-> << r1.ret, r2.ret >>]
            /\ msRoot' = TRUE
            /\ UNCHANGED << mmVars, mmiVars, overflow_checks >>

\* A run exercises one of the two containers.
RoundTripNext ==
    \/ msOp.name = "new" /\ (MMNext \/ MMInsertThenRemove)
    \/ mmOp.name = "new" /\ (MSNext \/ MSInsertSomeThenRemoveAtMost)

Init == MMInit /\ MSInit /\ MMIInit /\ overflow_checks \in BOOLEAN

Next == MMNext \/ MSNext

\* Both containers, every call of either.
Spec == Init /\ [][Next]_vars

\* The MultiMap alone.
SpecMultiMap == Init /\ [][MMNext]_vars

\* The MultiSet alone.
SpecMultiSet == Init /\ [][MSNext]_vars

\* The MultiMap over a sorted key backend, with its range queries.
SpecSortedMultiMap == Init /\ [][MMSortedNext]_vars

\* The MultiSet over a sorted backend, with its range queries.
SpecSortedMultiSet == Init /\ [][MSSortedNext]_vars

\* One container, built from iterators and arrays.
SpecBuild == Init /\ [][BuildNext]_vars

\* The MultiSet, also called through its Set and Container impls.
SpecMultiSetAsSet == Init /\ [][MSAsSetNext]_vars

\* The MultiMapImpl of lib.rs alone.
SpecMultiMapImpl == Init /\ [][MMINext]_vars

\* The MultiSet with its counters held in usize, called with any arguments.
SpecMultiSetUsize == Init /\ [][MSUsizeNext]_vars

\* The MultiMap, also called with the borrowed forms of keys and values.
SpecBorrowedLookup == Init /\ [][MMBorrowedNext]_vars

\* One container, its mutators and its queries.
SpecQueries == Init /\ [][QueryNext]_vars

\* ------------------------------------------------------- claims: MultiMap
\* The items a sequence yields.
Yielded(seq) == {seq[i] : i \in 1 .. Len(seq)}

\* The sum of set.len() over a sequence of (key, value-set) entries.
RECURSIVE SumOfSetLens(_)
SumOfSetLens(entries) ==
    IF entries = << >> THEN 0
    ELSE Set_len(Head(entries)[2]) + SumOfSetLens(Tail(entries))

\* C1: after every sequence of insert, remove and remove_key calls on an
\* empty MultiMap, num_mappings() equals the number of (key, value) pairs
\* mappings() yields, which is the sum of set.len() over value_sets().
C1_LengthIsNumberOfMappings ==
    /\ MultiMap_num_mappings(mm) = Len(MultiMap_mappings(mm))
    /\ Len(MultiMap_mappings(mm)) = SumOfSetLens(MultiMap_value_sets(mm))

\* C2: remove_key(k) on a key whose value-set holds n >= 1 values lowers
\* num_mappings() by exactly n; on an absent key it leaves it unchanged.
C2_RemoveKeyLowersLength ==
    mmOp.name = "remove_key" =>
        LET g == MultiMap_get(mmPre, mmOp.key)
        IN  IF g # None
            THEN MultiMap_num_mappings(mm)
                     = MultiMap_num_mappings(mmPre) - Set_len(g[1])
            ELSE MultiMap_num_mappings(mm) = MultiMap_num_mappings(mmPre)

\* The last call took away the last value of its key: a remove of the only
\* value of the key's value-set, or a remove_key of a present key.
TookLastValue ==
    \/ /\ mmOp.name = "remove"
       /\ mmOp.ret
       /\ MultiMap_get(mmPre, mmOp.key) = Some({mmOp.value})
    \/ /\ mmOp.name = "remove_key"
       /\ mmOp.ret # None

\* C3: in every reachable state every key of keys() has a non-empty
\* value-set, contains_key(k) holds exactly when some mapping (k, v) is
\* present, and after a remove or remove_key that takes away the last value
\* of k, contains_key(k) is false and k is not among keys().
C3_NoEmptyEntry ==
    /\ \A k \in Keys :
        /\ MultiMap_get(mm, k) # None => Set_len(MultiMap_get(mm, k)[1]) >= 1
        /\ k \in Yielded(MultiMap_keys(mm)) => MultiMap_get(mm, k) # None
        /\ MultiMap_contains_key(mm, k)
               <=> \E v \in Vals : MultiMap_contains(mm, k, v)
    /\ TookLastValue =>
        /\ ~MultiMap_contains_key(mm, mmOp.key)
        /\ mmOp.key \notin Yielded(MultiMap_keys(mm))

\* C3 witness: a remove took the only value of its key while another key
\* stays mapped.
C3_Witness ==
    /\ mmOp.name = "remove"
    /\ TookLastValue
    /\ ~MultiMap_contains_key(mm, mmOp.key)
    /\ ~MultiMap_is_empty(mm)

\* C6: insert(k, v) returns true exactly when (k, v) was not present before;
\* when it returns true num_mappings() grows by exactly 1; an immediately
\* repeated insert(k, v) returns false and leaves num_mappings(), num_keys()
\* and the mappings unchanged.
C6_InsertReturn ==
    mmOp.name = "insert" =>
        /\ mmOp.ret <=> ~MultiMap_contains(mmPre, mmOp.key, mmOp.value)
        /\ mmOp.ret =>
               MultiMap_num_mappings(mm) = MultiMap_num_mappings(mmPre) + 1
        /\ LET again == MultiMap_insert(mm, mmOp.key, mmOp.value)
           IN  /\ again.ret = FALSE
               /\ MultiMap_num_mappings(again.self) = MultiMap_num_mappings(mm)
               /\ MultiMap_num_keys(again.self) = MultiMap_num_keys(mm)
               /\ MultiMap_mappings(again.self) = MultiMap_mappings(mm)

\* C6 witness: an insert returned true for a key that already had a value.
C6_Witness ==
    /\ mmOp.name = "insert"
    /\ mmOp.ret
    /\ MultiMap_contains_key(mmPre, mmOp.key)
    /\ MultiMap_num_mappings(mm) = MultiMap_num_mappings(mmPre) + 1

\* C7: remove(k, v) returns true exactly when (k, v) was present before; when
\* it returns true the mapping is gone and num_mappings() is lower by
\* exactly 1.
C7_RemoveReturn ==
    mmOp.name = "remove" =>
        /\ mmOp.ret <=> MultiMap_contains(mmPre, mmOp.key, mmOp.value)
        /\ mmOp.ret =>
            /\ ~MultiMap_contains(mm, mmOp.key, mmOp.value)
            /\ MultiMap_num_mappings(mm) = MultiMap_num_mappings(mmPre) - 1

\* C7 witness: a remove returned true and left another value under the key.
C7_Witness ==
    /\ mmOp.name = "remove"
    /\ mmOp.ret
    /\ MultiMap_contains_key(mm, mmOp.key)
    /\ ~MultiMap_contains(mm, mmOp.key, mmOp.value)

\* C8: run beside a reference set R of pairs (insert adds (k, v), remove
\* deletes (k, v), remove_key deletes every pair with key k), contains(k, v)
\* equals ((k, v) in R) for all k, v, and mappings() yields exactly the
\* elements of R, each once.
C8_RefinesSetOfPairs ==
    /\ \A k \in Keys, v \in Vals :
           MultiMap_contains(mm, k, v) <=> << k, v >> \in mmRef
    /\ Yielded(MultiMap_mappings(mm)) = mmRef
    /\ Len(MultiMap_mappings(mm)) = Cardinality(mmRef)

\* C8 witness: a remove_key took two values at once and pairs of another key
\* remain.
C8_Witness ==
    /\ mmOp.name = "remove_key"
    /\ mmOp.ret # None
    /\ Set_len(mmOp.ret[1]) >= 2
    /\ mmRef # {}

\* C9: remove_key(k) on a present key returns Some(S), S being k's value-set
\* before the call, and afterwards contains_key(k) is false and num_keys() is
\* lower by 1; on an absent key, an immediately repeated remove_key(k)
\* included, it returns None and num_keys() is unchanged.
C9_RemoveKeyReturn ==
    mmOp.name = "remove_key" =>
        /\ IF \E v \in Vals : MultiMap_contains(mmPre, mmOp.key, v)
           THEN /\ mmOp.ret
                     = Some({v \in Vals :
                                MultiMap_contains(mmPre, mmOp.key, v)})
                /\ ~MultiMap_contains_key(mm, mmOp.key)
                /\ MultiMap_num_keys(mm) = MultiMap_num_keys(mmPre) - 1
           ELSE /\ mmOp.ret = None
                /\ MultiMap_num_keys(mm) = MultiMap_num_keys(mmPre)
        /\ LET again == MultiMap_remove_key(mm, mmOp.key)
           IN  /\ again.ret = None
               /\ MultiMap_num_keys(again.self) = MultiMap_num_keys(mm)

\* C9 witness: a remove_key returned the value-set of a present key.
C9_Witness ==
    /\ mmOp.name = "remove_key"
    /\ mmOp.ret # None
    /\ MultiMap_num_keys(mm) = MultiMap_num_keys(mmPre) - 1
    /\ MultiMap_num_keys(mm) >= 1

\* The keys that have at least one mapping.
MappedKeys(self) ==
    {k \in Keys : \E v \in Vals : MultiMap_contains(self, k, v)}

\* C10: num_keys() equals the number of distinct keys with at least one
\* mapping; insert(k, v) raises num_keys() by 1 exactly when k had no mapping
\* before, and never lowers it or removes an existing entry.
C10_NumKeys ==
    /\ MultiMap_num_keys(mm) = Cardinality(MappedKeys(mm))
    /\ mmOp.name = "insert" =>
        /\ MultiMap_num_keys(mm)
               = MultiMap_num_keys(mmPre)
                     + (IF mmOp.key \in MappedKeys(mmPre) THEN 0 ELSE 1)
        /\ \A k \in Keys :
               MultiMap_contains_key(mmPre, k) => MultiMap_contains_key(mm, k)

\* C10 witness: an insert under a new key while another key was mapped.
C10_Witness ==
    /\ mmOp.name = "insert"
    /\ mmOp.key \notin MappedKeys(mmPre)
    /\ MultiMap_num_keys(mmPre) >= 1
    /\ MultiMap_num_keys(mm) = MultiMap_num_keys(mmPre) + 1

\* ------------------------------------------------------- claims: MultiSet
\* The sum of the counts of a sequence of (value, count) entries.
RECURSIVE SumOfCounts(_)
SumOfCounts(entries) ==
    IF entries = << >> THEN 0
    ELSE Head(entries)[2] + SumOfCounts(Tail(entries))

\* C4: after every sequence of insert, insert_some, set_count, remove,
\* remove_at_most and remove_all calls on an empty MultiSet, len() equals the
\* sum of the counts counts() yields.
C4_LenIsSumOfCounts == MultiSet_len(ms) = SumOfCounts(MultiSet_counts(ms))

\* C4 witness: a remove_at_most with max above the count the value had, while
\* another value stays in the MultiSet.
C4_Witness ==
    /\ msOp.name = "remove_at_most"
    /\ msOp.ret >= 1
    /\ msOp.arg > msOp.ret
    /\ MultiSet_len(ms) >= 1

\* C5: after every sequence of MultiSet mutators, with count and max
\* arguments including 0, no entry of counts() has count 0, and contains(v)
\* is true exactly when count(v) > 0.
C5_NoZeroCount ==
    /\ \A i \in 1 .. Len(MultiSet_counts(ms)) : MultiSet_counts(ms)[i][2] # 0
    /\ \A v \in Elems : MultiSet_contains(ms, v) <=> MultiSet_count(ms, v) > 0

\* ---------------------------------------------- claims: MultiMap, continued
\* C11: in every state reachable by insert, remove and remove_key,
\* is_empty() is true exactly when num_mappings() == 0, and exactly when
\* num_keys() == 0.
C11_IsEmptyIffNoMappings ==
    /\ MultiMap_is_empty(mm) <=> MultiMap_num_mappings(mm) = 0
    /\ MultiMap_is_empty(mm) <=> MultiMap_num_keys(mm) = 0

\* C16: remove(k, v) called when k is absent, or when k is present but v is
\* not in its value-set, returns false and leaves the whole state unchanged:
\* the same mappings, num_keys() and num_mappings().
C16_RemoveAbsent ==
    (mmOp.name = "remove" /\ ~MultiMap_contains(mmPre, mmOp.key, mmOp.value))
        => /\ mmOp.ret = FALSE
           /\ mm = mmPre
           /\ MultiMap_mappings(mm) = MultiMap_mappings(mmPre)
           /\ MultiMap_num_keys(mm) = MultiMap_num_keys(mmPre)
           /\ MultiMap_num_mappings(mm) = MultiMap_num_mappings(mmPre)

\* C16 witness: a remove of a value that its present key does not hold.
C16_Witness ==
    /\ mmOp.name = "remove"
    /\ MultiMap_contains_key(mmPre, mmOp.key)
    /\ ~MultiMap_contains(mmPre, mmOp.key, mmOp.value)
    /\ mmOp.ret = FALSE
    /\ MultiMap_contains_key(mm, mmOp.key)

\* ---------------------------------------------- claims: MultiSet, continued
\* C12: insert_some(v, n) returns the count c that v had before (0 if
\* absent); afterwards count(v) == c + n, len() has grown by exactly n and
\* the counts of all other values are unchanged; insert(v) behaves as
\* insert_some(v, 1).
C12_InsertSome ==
    msOp.name \in {"insert_some", "insert"} =>
        LET v == msOp.value
            n == IF msOp.name = "insert" THEN 1 ELSE msOp.arg
            c == MultiSet_count(msPre, v)
        IN  /\ msOp.ret = c
            /\ MultiSet_count(ms, v) = c + n
            /\ MultiSet_len(ms) = MultiSet_len(msPre) + n
            /\ \A w \in Elems \ {v} :
                   MultiSet_count(ms, w) = MultiSet_count(msPre, w)
            /\ msOp.name = "insert" =>
                   /\ ms = MultiSet_insert_some(msPre, v, 1).self
                   /\ msOp.ret = MultiSet_insert_some(msPre, v, 1).ret

\* C12 witness: an insert_some added to a value already counted while another
\* value is counted too.
C12_Witness ==
    /\ msOp.name = "insert_some"
    /\ msOp.ret >= 1
    /\ msOp.arg >= 1
    /\ MultiSet_count(ms, msOp.value) = msOp.ret + msOp.arg
    /\ MultiSet_len(ms) > MultiSet_count(ms, msOp.value)

\* C13: remove_at_most(v, max) returns the count c that v had before;
\* afterwards count(v) == c - min(c, max) and len() is lower by exactly
\* min(c, max); if the new count is 0 then contains(v) is false; remove(v)
\* behaves as remove_at_most(v, 1).
C13_RemoveAtMost ==
    msOp.name \in {"remove_at_most", "remove"} =>
        LET v == msOp.value
            max == IF msOp.name = "remove" THEN 1 ELSE msOp.arg
            c == MultiSet_count(msPre, v)
            least == IF c <= max THEN c ELSE max
        IN  /\ msOp.ret = c
            /\ MultiSet_count(ms, v) = c - least
            /\ MultiSet_len(ms) = MultiSet_len(msPre) - least
            /\ MultiSet_count(ms, v) = 0 => ~MultiSet_contains(ms, v)
            /\ msOp.name = "remove" =>
                   /\ ms = MultiSet_remove_at_most(msPre, v, 1).self
                   /\ msOp.ret = MultiSet_remove_at_most(msPre, v, 1).ret

\* C13 witness: a remove_at_most took exactly the count the value had.
C13_Witness ==
    /\ msOp.name = "remove_at_most"
    /\ msOp.ret >= 1
    /\ msOp.arg >= msOp.ret
    /\ ~MultiSet_contains(ms, msOp.value)
    /\ MultiSet_len(ms) = MultiSet_len(msPre) - msOp.ret

\* C14: set_count(v, n) returns the count c that v had before; afterwards
\* count(v) == n and len() has changed by exactly n - c; set_count(v, 0)
\* leaves v not contained; repeating set_count(v, n) returns n and changes
\* nothing.
C14_SetCount ==
    msOp.name = "set_count" =>
        LET v == msOp.value
            n == msOp.arg
            c == MultiSet_count(msPre, v)
            again == MultiSet_set_count(ms, v, n)
        IN  /\ msOp.ret = c
            /\ MultiSet_count(ms, v) = n
            /\ MultiSet_len(ms) - MultiSet_len(msPre) = n - c
            /\ n = 0 => ~MultiSet_contains(ms, v)
            /\ again.ret = n
            /\ again.self = ms

\* C14 witness: a set_count changed a positive count to another positive one.
C14_Witness ==
    /\ msOp.name = "set_count"
    /\ msOp.ret >= 1
    /\ msOp.arg >= 1
    /\ msOp.arg # msOp.ret
    /\ MultiSet_count(ms, msOp.value) = msOp.arg

\* C15: remove_all(v) returns the count c that v had before; afterwards
\* count(v) == 0, contains(v) is false and len() is lower by exactly c; an
\* immediately repeated remove_all(v) returns 0.
C15_RemoveAll ==
    msOp.name = "remove_all" =>
        LET v == msOp.value
            c == MultiSet_count(msPre, v)
        IN  /\ msOp.ret = c
            /\ MultiSet_count(ms, v) = 0
            /\ ~MultiSet_contains(ms, v)
            /\ MultiSet_len(ms) = MultiSet_len(msPre) - c
            /\ MultiSet_remove_all(ms, v).ret = 0

\* C15 witness: a remove_all took a count of two or more and left another
\* value counted.
C15_Witness ==
    /\ msOp.name = "remove_all"
    /\ msOp.ret >= 2
    /\ MultiSet_len(ms) >= 1
    /\ MultiSet_len(ms) = MultiSet_len(msPre) - msOp.ret

\* C17: remove, remove_at_most (any max) and remove_all called for a value
\* that is not contained return 0 and leave every count and len() unchanged.
C17_RemoveNotContained ==
    (/\ msOp.name \in {"remove", "remove_at_most", "remove_all"}
     /\ ~MultiSet_contains(msPre, msOp.value))
        => /\ msOp.ret = 0
           /\ \A w \in Elems : MultiSet_count(ms, w) = MultiSet_count(msPre, w)
           /\ \A w \in Elems :
                  MultiSet_contains(ms, w) <=> MultiSet_contains(msPre, w)
           /\ MultiSet_len(ms) = MultiSet_len(msPre)

\* C17 witness: a remove_at_most with a positive max for a value that is not
\* contained, in a MultiSet that is not empty.
C17_Witness ==
    /\ msOp.name = "remove_at_most"
    /\ msOp.arg >= 1
    /\ ~MultiSet_contains(msPre, msOp.value)
    /\ MultiSet_len(msPre) >= 1
    /\ msOp.ret = 0

\* How many times a sequence yields x.
Occurrences(seq, x) == Cardinality({i \in 1 .. Len(seq) : seq[i] = x})

\* C18: iter() yields each value v exactly count(v) times and nothing else,
\* so the number of items it yields equals len(); counts() yields each
\* contained value exactly once, paired with count(v).
C18_IterYieldsCounts ==
    /\ \A v \in Elems :
           Occurrences(MultiSet_iter(ms), v) = MultiSet_count(ms, v)
    /\ Yielded(MultiSet_iter(ms)) \subseteq Elems
    /\ Len(MultiSet_iter(ms)) = MultiSet_len(ms)
    /\ \A v \in Elems :
           MultiSet_contains(ms, v) =>
               /\ Occurrences(MultiSet_counts(ms),
                              << v, MultiSet_count(ms, v) >>) = 1
               /\ Cardinality({i \in 1 .. Len(MultiSet_counts(ms)) :
                                   MultiSet_counts(ms)[i][1] = v}) = 1
    /\ \A i \in 1 .. Len(MultiSet_counts(ms)) :
           MultiSet_contains(ms, MultiSet_counts(ms)[i][1])

\* C18 witness: two values are counted, one of them at least twice.
C18_Witness ==
    /\ \E v, w \in Elems :
           /\ v # w
           /\ MultiSet_count(ms, v) >= 2
           /\ MultiSet_count(ms, w) >= 1
    /\ Len(MultiSet_iter(ms)) >= 3
    /\ Len(MultiSet_counts(ms)) = 2

\* ------------------------------------------------ claims: sorted backends
\* is_sorted of test_utils.rs: no item is greater than the one after it.
is_sorted(seq) == \A i \in 1 .. Len(seq) - 1 : ~(seq[i] > seq[i + 1])

\* The keys of a sequence of (key, x) items, in its order.
KeysOf(seq) == [i \in 1 .. Len(seq) |-> seq[i][1]]

RangeContains(start, end, key) ==
    /\ start[1] = "Included" => key >= start[2]
    /\ start[1] = "Excluded" => key > start[2]
    /\ end[1] = "Included" => key <= end[2]
    /\ end[1] = "Excluded" => key < end[2]

\* The items of a sequence of (key, x) items whose key lies within start..end.
WithKeyInRange(seq, start, end) ==
    LET InRange(item) == RangeContains(start, end, item[1])
    IN  SelectSeq(seq, InRange)

\* What a range query just made is meant to have yielded.
ExpectedInRange ==
    IF mmOp.name = "value_sets_in_range"
    THEN WithKeyInRange(MultiMap_value_sets(mmPre), mmOp.start, mmOp.end)
    ELSE WithKeyInRange(MultiMap_mappings(mmPre), mmOp.start, mmOp.end)

\* C20: on a sorted-key MultiMap, for any key range (half-open, inclusive
\* or unbounded) value_sets_in_range yields exactly the entries of
\* value_sets() whose key lies in the range and mappings_in_range yields
\* exactly the pairs of mappings() whose key lies in the range, both in
\* ascending key order.
C20_RangeYieldsKeysInRange ==
    mmOp.name \in {"value_sets_in_range", "mappings_in_range"} =>
        /\ ~mmOp.ret.panicked
        /\ mmOp.ret.items = ExpectedInRange
        /\ is_sorted(KeysOf(mmOp.ret.items))

\* A range query that returns yields exactly the items whose key lies in its
\* range, ascending by key, and leaves the multi-map as it was.
RangeQueryThatReturns ==
    (/\ mmOp.name \in {"value_sets_in_range", "mappings_in_range"}
     /\ ~mmOp.ret.panicked) =>
        /\ mmOp.ret.items = ExpectedInRange
        /\ is_sorted(KeysOf(mmOp.ret.items))
        /\ mm = mmPre

\* A range query panics only on a range whose start is above its end.
RangeQueryPanicsOnlyWhenInverted ==
    (/\ mmOp.name \in {"value_sets_in_range", "mappings_in_range"}
     /\ mmOp.ret.panicked) =>
        /\ mmOp.start # Unbounded
        /\ mmOp.end # Unbounded
        /\ mmOp.start[2] >= mmOp.end[2]
        /\ WithKeyInRange(MultiMap_value_sets(mmPre), mmOp.start, mmOp.end) = << >>

\* A range query over the middle of the keys has returned some of them.
RangeQueryReturnedSome ==
    /\ mmOp.name = "mappings_in_range"
    /\ ~mmOp.ret.panicked
    /\ Len(mmOp.ret.items) >= 2
    /\ Len(mmOp.ret.items) < Len(MultiMap_mappings(mm))

\* The items of a sequence of values that lie within start..end.
ValuesInRange(seq, start, end) ==
    LET InRange(item) == RangeContains(start, end, item)
    IN  SelectSeq(seq, InRange)

\* What a MultiSet range query just made is meant to have yielded.
ExpectedInElemRange ==
    IF msOp.name = "range"
    THEN ValuesInRange(MultiSet_iter(msPre), msOp.start, msOp.end)
    ELSE WithKeyInRange(MultiSet_counts(msPre), msOp.start, msOp.end)

\* C21: on a sorted MultiSet, for any range, range yields in ascending order
\* each contained value lying in the range repeated exactly count(v) times
\* and no value outside it; range_counts yields exactly the (value, count)
\* entries of counts() whose value lies in the range, in ascending order.
C21_RangeYieldsValuesInRange ==
    /\ msOp.name \in {"range", "range_counts"} =>
           /\ ~msOp.ret.panicked
           /\ msOp.ret.items = ExpectedInElemRange
    /\ msOp.name = "range" =>
           /\ is_sorted(msOp.ret.items)
           /\ \A v \in Elems :
                  Occurrences(msOp.ret.items, v) =
                      IF RangeContains(msOp.start, msOp.end, v)
                      THEN MultiSet_count(msPre, v) ELSE 0
    /\ msOp.name = "range_counts" => is_sorted(KeysOf(msOp.ret.items))

\* A MultiSet range query that returns yields exactly the items lying in its
\* range, ascending, and leaves the multi-set as it was.
ElemRangeQueryThatReturns ==
    (/\ msOp.name \in {"range", "range_counts"}
     /\ ~msOp.ret.panicked) =>
        /\ msOp.ret.items = ExpectedInElemRange
        /\ msOp.name = "range" =>
               /\ is_sorted(msOp.ret.items)
               /\ \A v \in Elems :
                      Occurrences(msOp.ret.items, v) =
                          IF RangeContains(msOp.start, msOp.end, v)
                          THEN MultiSet_count(msPre, v) ELSE 0
        /\ msOp.name = "range_counts" => is_sorted(KeysOf(msOp.ret.items))
        /\ ms = msPre

\* A MultiSet range query panics only on a range whose start is not below
\* its end.
ElemRangeQueryPanicsOnlyWhenInverted ==
    (/\ msOp.name \in {"range", "range_counts"}
     /\ msOp.ret.panicked) =>
        /\ msOp.start # Unbounded
        /\ msOp.end # Unbounded
        /\ msOp.start[2] >= msOp.end[2]
        /\ WithKeyInRange(MultiSet_counts(msPre), msOp.start, msOp.end) = << >>

\* A MultiSet range query has returned some but not all of the items.
ElemRangeQueryReturnedSome ==
    /\ msOp.name = "range"
    /\ ~msOp.ret.panicked
    /\ Len(msOp.ret.items) >= 2
    /\ Len(msOp.ret.items) < Len(MultiSet_iter(ms))

\* ----------------------------------------------- claims: building equals insert
\* The MultiMap after insert has been called on items[1], ..., items[n].
RECURSIVE MapInsertedUpTo(_, _, _)
MapInsertedUpTo(self, items, n) ==
    IF n = 0 THEN self
    ELSE MultiMap_insert(MapInsertedUpTo(self, items, n - 1),
                         items[n][1], items[n][2]).self

\* The MultiSet after insert has been called on items[1], ..., items[n].
RECURSIVE SetInsertedUpTo(_, _, _)
SetInsertedUpTo(self, items, n) ==
    IF n = 0 THEN self
    ELSE MultiSet_insert(SetInsertedUpTo(self, items, n - 1), items[n]).self

BuildNames == {"extend", "from_iter", "from"}

\* C22: MultiMap::from_iter / From<array> / extend over a sequence of pairs
\* and MultiSet::from_iter / From<array> / extend over a sequence of values
\* leave the container in exactly the state (contents, num_keys, length
\* counter) reached by calling insert on each item in order; a MultiSet built
\* from a sequence has count(v) equal to the occurrences of v and len() equal
\* to the sequence's length.
C22_BuildEqualsRepeatedInsert ==
    /\ mmOp.name \in BuildNames =>
           LET items == mmOp.items
               pairs == Yielded(MultiMap_mappings(mmPre)) \cup Yielded(items)
           IN  /\ mm = MapInsertedUpTo(mmPre, items, Len(items))
               /\ Yielded(MultiMap_mappings(mm)) = pairs
               /\ MultiMap_num_keys(mm) = Cardinality({p[1] : p \in pairs})
               /\ MultiMap_num_mappings(mm) =
                      MultiMap_num_mappings(mmPre)
                          + Cardinality(Yielded(items) \ Yielded(MultiMap_mappings(mmPre)))
               /\ mmOp.name # "extend" => mmPre = MultiMap_new
    /\ msOp.name \in BuildNames =>
           LET items == msOp.items
           IN  /\ ms = SetInsertedUpTo(msPre, items, Len(items))
               /\ \A v \in Elems :
                      MultiSet_count(ms, v) =
                          MultiSet_count(msPre, v) + Occurrences(items, v)
               /\ MultiSet_len(ms) = MultiSet_len(msPre) + Len(items)
               /\ msOp.name # "extend" =>
                      /\ \A v \in Elems : MultiSet_count(ms, v) = Occurrences(items, v)
                      /\ MultiSet_len(ms) = Len(items)

\* C22 witness: a MultiSet has been built from a sequence that repeats a
\* value.
C22_Witness ==
    /\ msOp.name = "from_iter"
    /\ Len(msOp.items) >= 2
    /\ \E v \in Elems : Occurrences(msOp.items, v) >= 2 /\ MultiSet_count(ms, v) >= 2

\* A MultiMap has been extended by a sequence holding a pair it already had
\* and a pair it had not.
BuildExtendedMultiMap ==
    /\ mmOp.name = "extend"
    /\ \E i, j \in 1 .. Len(mmOp.items) :
           /\ MultiMap_contains(mmPre, mmOp.items[i][1], mmOp.items[i][2])
           /\ ~MultiMap_contains(mmPre, mmOp.items[j][1], mmOp.items[j][2])

\* ----------------------------------------------- claims: Set and Container
\* HashSet and BTreeSet: insert returns true exactly for a value not yet
\* present, a false insert changes nothing, and an element is iterated once.
StdSetInsertContract ==
    \A s \in SUBSET Vals, value \in Vals :
        LET r == Set_insert(s, value)
        IN  /\ r.ret = (Occurrences(Set_iter(s), value) = 0)
            /\ ~r.ret => Set_len(r.set) = Set_len(s) /\ Set_iter(r.set) = Set_iter(s)
            /\ \A v \in Vals : Occurrences(Set_iter(r.set), v) <= 1

\* HashSet and BTreeSet: remove returns true exactly for a contained value
\* and a false remove changes nothing.
StdContainerRemoveContract ==
    \A s \in SUBSET Vals, value \in Vals :
        LET r == Container_remove(s, value)
        IN  /\ r.ret = Container_contains(s, value)
            /\ ~r.ret => r.set = s

\* C23: every Set implementation, impl Set for MultiSet included, holds no
\* duplicate elements: Set::insert returns true exactly when the value was
\* not already present, and a call that returns false leaves len() and the
\* iterated elements unchanged.
C23_SetInsertNoDuplicates ==
    /\ StdSetInsertContract
    /\ msOp.name = "Set::insert" =>
           /\ msOp.ret = (Occurrences(SetForMultiSet_iter(msPre), msOp.value) = 0)
           /\ ~msOp.ret =>
                  /\ SetForMultiSet_len(ms) = SetForMultiSet_len(msPre)
                  /\ SetForMultiSet_iter(ms) = SetForMultiSet_iter(msPre)
           /\ \A v \in Elems : Occurrences(SetForMultiSet_iter(ms), v) <= 1

\* C24: every Container implementation, impl Container for MultiSet
\* included: remove returns true exactly when contains was true before the
\* call (for a MultiSet, whenever its count was >= 1), and a call that
\* returns false leaves the set unchanged.
C24_ContainerRemoveContract ==
    /\ StdContainerRemoveContract
    /\ msOp.name = "Container::remove" =>
           /\ msOp.ret = ContainerForMultiSet_contains(msPre, msOp.value)
           /\ msOp.ret = (MultiSet_count(msPre, msOp.value) >= 1)
           /\ ~msOp.ret => ms = msPre

\* Through the MultiSet's Set impl, an insert of a value not yet iterated
\* returns true and one of a value already iterated returns false.
SetForMultiSetInsertReturn ==
    msOp.name = "Set::insert" =>
        msOp.ret = (Occurrences(SetForMultiSet_iter(msPre), msOp.value) = 0)

\* Through the MultiSet's Container impl, a remove of a value whose count is
\* 1 returns true, and a remove of a value not contained returns false and
\* changes nothing.
ContainerForMultiSetRemoveAtCountOne ==
    msOp.name = "Container::remove" =>
        /\ MultiSet_count(msPre, msOp.value) = 1 => msOp.ret
        /\ ~ContainerForMultiSet_contains(msPre, msOp.value) =>
               ~msOp.ret /\ ms = msPre

\* -------------------------------------------- claims: value-sets are private
\* C25: a MultiMap's value-sets change only through the MultiMap's own
\* insert, remove and remove_key: no other operation of any MultiMap variant
\* (get, get_mut, keys, values, iteration) lets a caller add or remove a
\* value in a value-set, so callers cannot make len() differ from the number
\* of stored pairs.
C25_ValueSetsChangeOnlyThroughMultiMap ==
    /\ mmiOp.name \notin {"new", "insert", "remove"} => mmi.data = mmiPre.data
    /\ MultiMapImpl_len(mmi) = Len(MultiMapImpl_iter(mmi))

\* Left to its own insert and remove, the MultiMapImpl keeps len() equal to
\* the number of stored pairs.
MultiMapImplOwnCallsKeepLen ==
    (/\ mmiOp.name \in {"insert", "remove"}
     /\ MultiMapImpl_len(mmiPre) = Len(MultiMapImpl_iter(mmiPre))) =>
        MultiMapImpl_len(mmi) = Len(MultiMapImpl_iter(mmi))

\* ------------------------------------------------ claims: the counters' width
\* C26: the length counters never underflow: in every reachable state of
\* MultiMap and MultiSet each subtraction from length (remove, remove_at_most
\* for any max, remove_all, set_count) subtracts an amount no greater than
\* the current length, so the counter never goes negative or wraps.
C26_LengthNeverUnderflows ==
    /\ msOp.name \in {"remove_at_most", "remove_all", "set_count"} =>
           ~msOp.subtracted_under
    /\ (mmOp.name = "remove" /\ mmOp.ret) => MultiMap_num_mappings(mmPre) >= 1

\* C27: with usize a w-bit unsigned integer, insert_some(v, n) and
\* set_count(v, n) are total for every n: neither a per-value count nor the
\* length counter (the intermediate length += new of set_count included)
\* ever exceeds 2^w - 1 or wraps.
C27_CountsNeverOverflow ==
    msOp.name \in {"insert_some", "set_count"} =>
        /\ ~msOp.panicked
        /\ ~msOp.added_over

\* While no addition has gone above usize::MAX, the MultiSet's subtractions
\* stay within the length counter: each takes at most the value's count,
\* which the counter includes.
MultiSetSubtractsWithinLength ==
    /\ MultiSet_len(ms) >= 0
    /\ msOp.name \in {"remove", "remove_at_most"} =>
           /\ msOp.ret <= MultiSet_len(msPre)
           /\ MultiSet_len(ms) =
                  MultiSet_len(msPre)
                      - (IF msOp.ret <= msOp.arg THEN msOp.ret ELSE msOp.arg)
    /\ msOp.name = "remove_all" => msOp.ret <= MultiSet_len(msPre)
    /\ msOp.name = "set_count" => msOp.ret <= MultiSet_len(msPre) + msOp.arg

\* The MultiMap's remove subtracts 1 only from a counter that is at least 1.
MultiMapSubtractsWithinLength ==
    /\ MultiMap_num_mappings(mm) >= 0
    /\ (mmOp.name = "remove" /\ mmOp.ret) => MultiMap_num_mappings(mmPre) >= 1

\* A subtraction goes below 0 only in a multi-set that an overflowing
\* addition has already passed through or passes through in the same call:
\* where the counter equals the sum of the counts and the call's addition
\* fits, no subtraction goes below 0.
UnderflowOnlyAfterOverflow ==
    (/\ msOp.name \in {"remove_at_most", "remove_all", "set_count"}
     /\ MultiSet_len(msPre) = SumOfCounts(MultiSet_counts(msPre))
     /\ ~msOp.added_over) =>
        ~msOp.subtracted_under

\* ------------------------------------------- claims: borrowed-key lookups
\* The owned keys and values whose borrowed form is q.
OwnedOf(S, q) == {x \in S : as_str(x) = q}

C29_GetOrInsert ==
    /\ \A key \in Keys :
           LET m1 == Map_get_or_insert(mm.map, key, Set_default)
           IN  /\ \A k \in DOMAIN mm.map : k \in DOMAIN m1 /\ m1[k] = mm.map[k]
               /\ Lookup_contains_key(mm.map, key) =>
                      /\ m1 = mm.map
                      /\ Map_len(m1) = Map_len(mm.map)
               /\ ~Lookup_contains_key(mm.map, key) =>
                      /\ Map_len(m1) = Map_len(mm.map) + 1
                      /\ DOMAIN m1 = DOMAIN mm.map \cup {key}
                      /\ m1[key] = Set_default
    /\ (mmOp.name = "insert" /\ MultiMap_contains_key(mmPre, mmOp.key)) =>
           /\ MultiMap_num_keys(mm) = MultiMap_num_keys(mmPre)
           /\ \A v \in mmPre.map[mmOp.key] : MultiMap_contains(mm, mmOp.key, v)
           /\ mm.map[mmOp.key] = mmPre.map[mmOp.key] \cup {mmOp.value}
           /\ \A k \in DOMAIN mmPre.map \ {mmOp.key} : mm.map[k] = mmPre.map[k]

\* C29 witness: insert has added a value under a key that already had one,
\* beside another key.
C29_Witness ==
    /\ mmOp.name = "insert"
    /\ mmOp.ret
    /\ MultiMap_contains_key(mmPre, mmOp.key)
    /\ Set_len(mm.map[mmOp.key]) >= 2
    /\ MultiMap_num_keys(mm) >= 2

\* ------------------------------------------------------- claims: queries
MMQueryNames ==
    {"contains", "contains_key", "get", "keys", "value_sets", "mappings",
     "is_empty", "num_keys", "num_mappings"}

MSQueryNames == {"contains", "count", "is_empty", "len", "iter", "counts"}

\* C30: query operations do not change state: MultiMap contains (which takes
\* &mut self), contains_key, get, keys, value_sets, mappings, is_empty,
\* num_keys, num_mappings, and MultiSet contains, count, is_empty, len, iter,
\* counts leave the mappings/counts and the length counter unchanged.
C30_QueriesChangeNothing ==
    /\ mmOp.name \in MMQueryNames =>
           /\ mm.map = mmPre.map
           /\ MultiMap_mappings(mm) = MultiMap_mappings(mmPre)
           /\ MultiMap_num_keys(mm) = MultiMap_num_keys(mmPre)
           /\ MultiMap_num_mappings(mm) = MultiMap_num_mappings(mmPre)
    /\ msOp.name \in MSQueryNames =>
           /\ ms.map = msPre.map
           /\ MultiSet_counts(ms) = MultiSet_counts(msPre)
           /\ MultiSet_len(ms) = MultiSet_len(msPre)

\* C30 witness: contains has been asked for a key the MultiMap does not map,
\* while it maps another.
C30_Witness ==
    /\ mmOp.name = "contains"
    /\ ~mmOp.ret
    /\ ~MultiMap_contains_key(mmPre, mmOp.key)
    /\ MultiMap_num_keys(mm) >= 1

\* A MultiSet query has been made on a multi-set holding a value twice.
QueriedMultiSet ==
    /\ msOp.name = "count"
    /\ msOp.ret >= 2
\* The MultiMap whose value-sets are MultiSets.
SpecMultiMapOfMultiSets == Init /\ [][MMOfMultiSetsNext]_vars

\* Either container, with each mutation also followed by its inverse.
SpecRoundTrip == Init /\ [][RoundTripNext]_vars

\* -------------------------------------------------------------------- C31
\* The sum of set.len() over the value-sets of a sequence of entries.
RECURSIVE SumOfLens(_)
SumOfLens(entries) ==
    IF entries = << >> THEN 0
    ELSE SetForMultiSet_len(Head(entries)[2]) + SumOfLens(Tail(entries))

\* C31: for a MultiMap whose value-set type is a MultiSet, after every insert
\* and remove num_mappings() equals the sum of set.len() over all value-sets,
\* and remove(k, v) returns true whenever (k, v) was contained.
C31_MultiSetValuedCountsAndRemove ==
    mmOp.name \in {"insert", "remove"} =>
        /\ MultiMap_num_mappings(mm) = SumOfLens(MultiMap_value_sets(mm))
        /\ (mmOp.name = "remove"
              /\ MultiMapOfMultiSets_contains(mmPre, mmOp.key, mmOp.value))
           => mmOp.ret = TRUE

\* What the code does keep: num_mappings() is the number of distinct
\* (key, value) pairs contained, and no value-set stored is empty.
MultiSetValuedLengthCountsDistinctPairs ==
    /\ MultiMap_num_mappings(mm)
         = Cardinality({p \in Keys \X Vals :
                           MultiMapOfMultiSets_contains(mm, p[1], p[2])})
    /\ \A k \in DOMAIN mm.map : ~SetForMultiSet_is_empty(mm.map[k])

\* remove(k, v) returns true exactly when it took the last copy of (k, v).
MultiSetValuedRemoveTrueAtLastCopy ==
    mmOp.name = "remove" =>
        (mmOp.ret <=> /\ mmOp.key \in DOMAIN mmPre.map
                      /\ MultiSet_count(mmPre.map[mmOp.key], mmOp.value) = 1)
\* -------------------------------------------------------------------- C32
\* A second MultiMap over the same backend, built by inserting into a new
\* multi-map the mappings the first one yields.
RebuiltMultiMap == MultiMap_from_iter(MultiMap_mappings(mm))

\* C32: two MultiMaps that hold the same set of (key, value) mappings are
\* equal under the derived == (the map and the length field both equal),
\* whatever calls of insert, remove and remove_key produced them.
C32_MultiMapEqualityHistoryIndependent ==
    MultiMap_mappings(RebuiltMultiMap) = MultiMap_mappings(mm)
        => RebuiltMultiMap = mm

\* The map field alone is determined by the mappings held.
MultiMapMapFieldHistoryIndependent ==
    /\ MultiMap_mappings(RebuiltMultiMap) = MultiMap_mappings(mm)
    /\ RebuiltMultiMap.map = mm.map

\* The two differ, when they do, by a length that remove_key left too high.
MultiMapUnequalOnlyByStaleLength ==
    RebuiltMultiMap # mm => RebuiltMultiMap.length < mm.length

\* -------------------------------------------------------------------- C33
\* A second MultiSet over the same backend, built by inserting into a new
\* multi-set the values the first one yields.
RebuiltMultiSet == MultiSet_from_iter(MultiSet_iter(ms))

\* C33: two MultiSets with count(v) equal for every value v are equal under
\* the derived == (the map and the length field both equal), whatever calls
\* of insert_some, set_count, remove_at_most and remove_all produced them.
C33_MultiSetEqualityHistoryIndependent ==
    (\A v \in Elems : MultiSet_count(RebuiltMultiSet, v) = MultiSet_count(ms, v))
        => RebuiltMultiSet = ms

\* The length field and every count are determined by the values held.
MultiSetCountsAndLengthHistoryIndependent ==
    /\ \A v \in Elems : MultiSet_count(RebuiltMultiSet, v) = MultiSet_count(ms, v)
    /\ RebuiltMultiSet.length = ms.length

\* The two differ, when they do, by an entry of count 0 in the map.
MultiSetUnequalOnlyByZeroEntry ==
    RebuiltMultiSet # ms => \E v \in DOMAIN ms.map : ms.map[v] = 0
\* -------------------------------------------------------------------- C34
\* C34: in every reachable MultiSet state, is_empty() is true exactly when
\* counts() yields no entry, which is exactly when no value v has
\* contains(v) true.
C34_IsEmptyIffNoEntries ==
    /\ MultiSet_is_empty(ms) <=> (MultiSet_counts(ms) = << >>)
    /\ (MultiSet_counts(ms) = << >>)
         <=> (\A v \in Elems : ~MultiSet_contains(ms, v))

\* The second half alone holds: counts() and contains read the same map.
CountsEmptyIffNothingContained ==
    (MultiSet_counts(ms) = << >>) <=> (\A v \in Elems : ~MultiSet_contains(ms, v))

\* is_empty() is true exactly when iter() yields nothing.
IsEmptyIffIterYieldsNothing ==
    MultiSet_is_empty(ms) <=> (MultiSet_iter(ms) = << >>)
\* -------------------------------------------------------------------- C35
\* C35: from a MultiMap state in which (k, v) is absent, insert(k, v)
\* followed by remove(k, v) restores the prior mappings, num_keys() and
\* num_mappings(); from a MultiSet state, insert_some(v, n) followed by
\* remove_at_most(v, n) restores the prior counts, contains results and
\* len(), for every n >= 0.
C35_InverseRestoresPriorState ==
    /\ (mmOp.name = "insert;remove"
          /\ ~MultiMap_contains(mmPre, mmOp.key, mmOp.value))
       => /\ MultiMap_mappings(mm) = MultiMap_mappings(mmPre)
          /\ MultiMap_num_keys(mm) = MultiMap_num_keys(mmPre)
          /\ MultiMap_num_mappings(mm) = MultiMap_num_mappings(mmPre)
    /\ msOp.name = "insert_some;remove_at_most"
       => /\ \A w \in Elems :
                /\ MultiSet_count(ms, w) = MultiSet_count(msPre, w)
                /\ MultiSet_contains(ms, w) = MultiSet_contains(msPre, w)
          /\ MultiSet_len(ms) = MultiSet_len(msPre)

\* The MultiMap half holds, with the whole struct restored.
MultiMapInsertThenRemoveRestores ==
    (mmOp.name = "insert;remove"
       /\ ~MultiMap_contains(mmPre, mmOp.key, mmOp.value))
    => /\ mm = mmPre
       /\ mmOp.ret = << TRUE, TRUE >>

\* The MultiSet half holds for counts and len(), and for contains unless the
\* prior state held the value with count 0.
MultiSetInverseRestoresButZeroEntry ==
    msOp.name = "insert_some;remove_at_most"
    => /\ \A w \in Elems : MultiSet_count(ms, w) = MultiSet_count(msPre, w)
       /\ MultiSet_len(ms) = MultiSet_len(msPre)
       /\ ms # msPre => /\ msOp.value \in DOMAIN msPre.map
                        /\ msPre.map[msOp.value] = 0
\* -------------------------------------------------------------------- C36
\* The keyed mutators of the two containers, by the name their call records.
MMKeyedMutators == {"insert", "remove", "remove_key", "insert;remove"}
MSKeyedMutators ==
    {"insert", "insert_some", "set_count", "remove", "remove_at_most",
     "remove_all", "insert_some;remove_at_most"}

\* C36: MultiMap insert(k, v), remove(k, v) and remove_key(k) leave the
\* value-set of every key other than k unchanged, and the MultiSet mutators
\* on value v leave count(w) unchanged for every w other than v.
C36_KeyedMutationsFrame ==
    /\ mmOp.name \in MMKeyedMutators
       => \A j \in Keys \ {mmOp.key} : MultiMap_get(mm, j) = MultiMap_get(mmPre, j)
    /\ msOp.name \in MSKeyedMutators
       => \A w \in Elems \ {msOp.value} :
              MultiSet_count(ms, w) = MultiSet_count(msPre, w)

\* A remove_key(k) that removed a value-set while another key held one.
C36_Witness ==
    /\ mmOp.name = "remove_key"
    /\ mmOp.ret # None
    /\ \E j \in Keys \ {mmOp.key} : MultiMap_get(mm, j) # None

\* A MultiSet mutator that changed the count of v while another value was held.
C36_WitnessMultiSet ==
    /\ msOp.name \in {"set_count", "remove_at_most", "remove_all"}
    /\ MultiSet_count(ms, msOp.value) # MultiSet_count(msPre, msOp.value)
    /\ \E w \in Elems \ {msOp.value} : MultiSet_count(ms, w) > 0

====
